---------------------------- MODULE Spec2Model ----------------------------
(***************************************************************************)
(* A model of src/ai/process_receipt.py: ReceiptProcessor.process_receipt  *)
(* and the five extractors it runs over the text of one receipt.           *)
(*                                                                         *)
(* Python strings are TLA+ strings; a character is a string of length 1.   *)
(* The regular expressions of the source are translated one by one into    *)
(* operators that compute what re.search / re.findall return for them      *)
(* (the leftmost match, greedy quantifiers, the capture groups).           *)
(* Amounts have exactly two fraction digits wherever the program converts  *)
(* them (every capture ends in \.\d{2}), so a float is held as its number  *)
(* of hundredths: 45.67 is 4567, and the confidence 0.95 is 95.            *)
(***************************************************************************)
EXTENDS Integers, Sequences, FiniteSets, TLC

(***************************************************************************)
(* Characters and the str methods the program uses.                        *)
(***************************************************************************)
Ch(s, i) == IF i >= 1 /\ i <= Len(s) THEN SubSeq(s, i, i) ELSE ""

From(s, i) == SubSeq(s, i, Len(s))

Digit == {"0", "1", "2", "3", "4", "5", "6", "7", "8", "9"}

UpperLetter ==
    {"A", "B", "C", "D", "E", "F", "G", "H", "I", "J", "K", "L", "M",
     "N", "O", "P", "Q", "R", "S", "T", "U", "V", "W", "X", "Y", "Z"}

LowerLetter ==
    {"a", "b", "c", "d", "e", "f", "g", "h", "i", "j", "k", "l", "m",
     "n", "o", "p", "q", "r", "s", "t", "u", "v", "w", "x", "y", "z"}

Letter == UpperLetter \cup LowerLetter

\* \s of the re module, within ASCII.
Whitespace == {" ", "\t", "\n", "\r", "\f"}

\* \w of the re module, within ASCII.
WordChar == Letter \cup Digit \cup {"_"}

LowerOfUpper ==
    [c \in UpperLetter |->
        LET k == CHOOSE k \in 1..26 : Ch("ABCDEFGHIJKLMNOPQRSTUVWXYZ", k) = c
        IN  Ch("abcdefghijklmnopqrstuvwxyz", k)]

UpperOfLower ==
    [c \in LowerLetter |->
        LET k == CHOOSE k \in 1..26 : Ch("abcdefghijklmnopqrstuvwxyz", k) = c
        IN  Ch("ABCDEFGHIJKLMNOPQRSTUVWXYZ", k)]

DigitValue ==
    [c \in Digit |-> (CHOOSE k \in 0..9 : Ch("0123456789", k + 1) = c)]

LowerCh(c) == IF c \in UpperLetter THEN LowerOfUpper[c] ELSE c

UpperCh(c) == IF c \in LowerLetter THEN UpperOfLower[c] ELSE c

\* str.lower()
RECURSIVE lower(_)
lower(s) == IF s = "" THEN "" ELSE LowerCh(Head(s)) \o lower(Tail(s))

\* str.capitalize(): the first character upper-cased, the rest lower-cased.
capitalize(s) == IF s = "" THEN "" ELSE UpperCh(Head(s)) \o lower(Tail(s))

\* str.strip()
RECURSIVE lstrip(_)
lstrip(s) == IF s # "" /\ Head(s) \in Whitespace THEN lstrip(Tail(s)) ELSE s

RECURSIVE rstrip(_)
rstrip(s) ==
    IF s # "" /\ Ch(s, Len(s)) \in Whitespace
    THEN rstrip(SubSeq(s, 1, Len(s) - 1))
    ELSE s

strip(s) == rstrip(lstrip(s))

\* str.startswith(prefix)
startswith(s, prefix) == Len(prefix) <= Len(s) /\ SubSeq(s, 1, Len(prefix)) = prefix

\* `sub in s`
contains(s, sub) ==
    \E i \in 1..(Len(s) + 1) :
        i + Len(sub) - 1 <= Len(s) /\ SubSeq(s, i, i + Len(sub) - 1) = sub

\* str.replace(old, "") for a single character old.
RECURSIVE remove(_, _)
remove(s, old) ==
    IF s = "" THEN ""
    ELSE (IF Head(s) = old THEN "" ELSE Head(s)) \o remove(Tail(s), old)

\* str.split(sep) for a single character sep: the list of fields.
RECURSIVE split(_, _)
split(s, sep) ==
    LET cuts == {i \in 1..Len(s) : Ch(s, i) = sep}
    IN  IF cuts = {} THEN <<s>>
        ELSE LET c == CHOOSE i \in cuts : \A j \in cuts : i <= j
             IN  <<SubSeq(s, 1, c - 1)>> \o split(From(s, c + 1), sep)

AllIn(s, i, n, class) == \A k \in i..(i + n - 1) : Ch(s, k) \in class

\* The length of the longest run of characters of `class` starting at i.
RECURSIVE RunLen(_, _, _)
RunLen(s, i, class) ==
    IF Ch(s, i) \in class THEN 1 + RunLen(s, i + 1, class) ELSE 0

\* \b between the characters i-1 and i.
WordBoundary(s, i) == (Ch(s, i - 1) \in WordChar) # (Ch(s, i) \in WordChar)

\* Whether the literal lit stands at i.
LitAt(s, i, lit) ==
    i + Len(lit) - 1 <= Len(s) /\ SubSeq(s, i, i + Len(lit) - 1) = lit

Least(S) == CHOOSE x \in S : \A y \in S : x <= y

Greatest(S) == CHOOSE x \in S : \A y \in S : x >= y

\* int(s) of a non-empty string of digits.
RECURSIVE int(_)
int(s) ==
    IF s = "" THEN 0
    ELSE int(SubSeq(s, 1, Len(s) - 1)) * 10 + DigitValue[Ch(s, Len(s))]

\* The decimal numeral of n >= 0, and the same zero-padded to width w.
RECURSIVE Numeral(_)
Numeral(n) ==
    IF n < 10 THEN Ch("0123456789", n + 1)
    ELSE Numeral(n \div 10) \o Ch("0123456789", (n % 10) + 1)

RECURSIVE ZeroPad(_, _)
ZeroPad(str, w) == IF Len(str) >= w THEN str ELSE ZeroPad("0" \o str, w)

(***************************************************************************)
(* What a call returns or raises.                                          *)
(***************************************************************************)
Return(v) == [raised |-> FALSE, exc |-> "", value |-> v]

Raise(e, v) == [raised |-> TRUE, exc |-> e, value |-> v]

\* Optional[str]: None, or a string.
None == [present |-> FALSE, str |-> ""]

Some(x) == [present |-> TRUE, str |-> x]

(***************************************************************************)
(* float(s), for the strings the program passes to it: a label of letters, *)
(* or a capture (an optional symbol, whitespace, digits, a point and two   *)
(* digits) with its commas and "$" removed. float strips whitespace and    *)
(* raises ValueError on a letter or a symbol.                              *)
(***************************************************************************)
float(s) ==
    LET t == strip(s)
        n == Len(t)
    IN  IF /\ n >= 3
           /\ Ch(t, n - 2) = "."
           /\ AllIn(t, 1, n - 3, Digit)
           /\ AllIn(t, n - 1, 2, Digit)
        THEN Return(int(SubSeq(t, 1, n - 3)) * 100 + int(SubSeq(t, n - 1, n)))
        ELSE Raise("ValueError", 0)

(***************************************************************************)
(* datetime.strptime and strftime.                                         *)
(***************************************************************************)
IsLeap(y) == (y % 4 = 0 /\ y % 100 # 0) \/ y % 400 = 0

DaysInMonth(y, m) ==
    IF m = 2 THEN (IF IsLeap(y) THEN 29 ELSE 28)
    ELSE IF m \in {4, 6, 9, 11} THEN 30 ELSE 31

\* The regular expression _strptime compiles for a directive, on a field f.
DirectiveMatches(d, f) ==
    CASE d = "Y" -> Len(f) = 4 /\ AllIn(f, 1, 4, Digit)
      [] d = "y" -> Len(f) = 2 /\ AllIn(f, 1, 2, Digit)
      [] d = "m" -> Len(f) \in 1..2 /\ AllIn(f, 1, Len(f), Digit) /\ int(f) \in 1..12
      [] d = "d" -> \/ Len(f) \in 1..2 /\ AllIn(f, 1, Len(f), Digit) /\ int(f) \in 1..31
                    \/ Len(f) = 2 /\ Ch(f, 1) = " " /\ Ch(f, 2) \in (Digit \ {"0"})
      [] OTHER -> FALSE

DirectiveValue(d, f) ==
    CASE d = "y" -> (IF int(f) < 69 THEN 2000 + int(f) ELSE 1900 + int(f))
      [] d = "d" -> int(strip(f))
      [] OTHER -> int(f)

DirectiveField(d) ==
    CASE d \in {"Y", "y"} -> "year" [] d = "m" -> "month" [] OTHER -> "day"

NoDate == [ok |-> FALSE, year |-> 0, month |-> 0, day |-> 0]

\* The match of the format's regular expression against all of s.
RECURSIVE StrptimeMatch(_, _, _)
StrptimeMatch(s, fmt, acc) ==
    IF fmt = "" THEN (IF s = "" THEN acc ELSE NoDate)
    ELSE IF Head(fmt) = "%"
    THEN LET d == Ch(fmt, 2)
             try(n) ==
                 IF n <= Len(s) /\ DirectiveMatches(d, SubSeq(s, 1, n))
                 THEN StrptimeMatch(From(s, n + 1), From(fmt, 3),
                          [acc EXCEPT ![DirectiveField(d)] =
                              DirectiveValue(d, SubSeq(s, 1, n))])
                 ELSE NoDate
         IN  CASE d = "Y" -> try(4)
               [] d = "y" -> try(2)
               [] OTHER -> IF try(2).ok THEN try(2) ELSE try(1)
    ELSE IF s # "" /\ Head(s) = Head(fmt)
         THEN StrptimeMatch(Tail(s), Tail(fmt), acc)
         ELSE NoDate

\* datetime.strptime(s, fmt): .ok is FALSE where it raises ValueError.
strptime(s, fmt) ==
    LET m == StrptimeMatch(s, fmt, [ok |-> TRUE, year |-> 1900, month |-> 1, day |-> 1])
    IN  IF m.ok /\ m.year >= 1 /\ m.day <= DaysInMonth(m.year, m.month)
        THEN m ELSE NoDate

\* d.strftime('%Y-%m-%d'), for a year of four digits.
strftime(d) ==
    ZeroPad(Numeral(d.year), 4) \o "-" \o ZeroPad(Numeral(d.month), 2)
        \o "-" \o ZeroPad(Numeral(d.day), 2)

(***************************************************************************)
(* parse_date                                                              *)
(***************************************************************************)
MonthPrefix ==
    {"jan", "feb", "mar", "apr", "may", "jun", "jul", "aug", "sep", "oct", "nov", "dec"}

\* \b\d{A}<sep>\d{B}<sep>\d{C}\b at i: the position after the match, or 0.
NumericDateEnd(s, i, sep, A, B, C) ==
    LET ends == {i + t[1] + t[2] + t[3] + 2 : t \in
                   {t \in (IF Ch(s, i) \in Digit /\ WordBoundary(s, i)
                           THEN A \X B \X C ELSE {}) :
                      /\ AllIn(s, i, t[1], Digit)
                      /\ Ch(s, i + t[1]) = sep
                      /\ AllIn(s, i + t[1] + 1, t[2], Digit)
                      /\ Ch(s, i + t[1] + t[2] + 1) = sep
                      /\ AllIn(s, i + t[1] + t[2] + 2, t[3], Digit)
                      /\ WordBoundary(s, i + t[1] + t[2] + t[3] + 2)}}
    IN  IF ends = {} THEN 0 ELSE Greatest(ends)

\* \b(Jan|...|Dec)[a-z]* \d{1,2},? \d{4}\b at i, re.IGNORECASE.
MonthFirstDateEnd(s, i) ==
    LET j == i + 3 + RunLen(s, i + 3, Letter)
        ends == {j + 1 + t[1] + t[2] + 1 + 4 : t \in
                   {t \in (IF /\ Ch(s, i) \in Letter
                              /\ WordBoundary(s, i)
                              /\ i + 2 <= Len(s)
                              /\ lower(SubSeq(s, i, i + 2)) \in MonthPrefix
                           THEN (1..2) \X (0..1) ELSE {}) :
                      /\ Ch(s, j) = " "
                      /\ AllIn(s, j + 1, t[1], Digit)
                      /\ (t[2] = 1 => Ch(s, j + 1 + t[1]) = ",")
                      /\ Ch(s, j + 1 + t[1] + t[2]) = " "
                      /\ AllIn(s, j + 1 + t[1] + t[2] + 1, 4, Digit)
                      /\ WordBoundary(s, j + 1 + t[1] + t[2] + 1 + 4)}}
    IN  IF ends = {} THEN 0 ELSE Greatest(ends)

\* \b\d{1,2} (Jan|...|Dec)[a-z]* \d{4}\b at i, re.IGNORECASE.
DayFirstDateEnd(s, i) ==
    LET end(a) ==
            LET m == i + a + 1
                j == m + 3 + RunLen(s, m + 3, Letter)
            IN  IF /\ AllIn(s, i, a, Digit)
                   /\ Ch(s, i + a) = " "
                   /\ m + 2 <= Len(s)
                   /\ lower(SubSeq(s, m, m + 2)) \in MonthPrefix
                   /\ Ch(s, j) = " "
                   /\ AllIn(s, j + 1, 4, Digit)
                   /\ WordBoundary(s, j + 5)
                THEN j + 5 ELSE 0
        ends == {end(a) : a \in (IF Ch(s, i) \in Digit /\ WordBoundary(s, i)
                                 THEN 1..2 ELSE {})} \ {0}
    IN  IF ends = {} THEN 0 ELSE Greatest(ends)

\* date_patterns[p] at i: the position after the match, or 0.
DatePatternEnd(s, p, i) ==
    CASE p = 1 -> NumericDateEnd(s, i, "/", 1..2, 1..2, 2..4)
      [] p = 2 -> NumericDateEnd(s, i, "-", 1..2, 1..2, 2..4)
      [] p = 3 -> NumericDateEnd(s, i, "-", {4}, {2}, {2})
      [] p = 4 -> MonthFirstDateEnd(s, i)
      [] OTHER -> DayFirstDateEnd(s, i)

\* re.search(date_patterns[p], text, re.IGNORECASE).group(0), or "" for no match.
DateSearch(text, p) ==
    LET starts == {i \in 1..Len(text) : DatePatternEnd(text, p, i) > 0}
        first == Least(starts)
    IN  IF starts = {} THEN ""
        ELSE SubSeq(text, first, DatePatternEnd(text, p, first) - 1)

\* The formats of line 85, in order.
FallbackFormats == <<"%m-%d-%Y", "%d-%m-%Y", "%m/%d/%y", "%d/%m/%y">>

\* What one pass of a pattern loop does: go on to the next pattern, or leave
\* the function with `out` (a Return or a Raise).
Continue == [continue |-> TRUE, out |-> Return(None)]

Leave(out) == [continue |-> FALSE, out |-> out]

\* Lines 78-83: one format tried; ValueError is caught at line 93.
TryFormat(parsed) ==
    IF parsed.ok THEN Leave(Return(Some(strftime(parsed)))) ELSE Continue

\* Lines 85-92 with the formats `good` that parse date_str: the first one
\* breaks the loop. With none, `parsed` was never bound and line 92 reads it
\* (UnboundLocalError is not a ValueError).
TryFallbackFormats(date_str, good) ==
    IF good # {}
    THEN Leave(Return(Some(strftime(
             strptime(date_str, FallbackFormats[Least(good)])))))
    ELSE Leave(Raise("UnboundLocalError", None))

\* Lines 76-94 for a match date_str ("" for no match).
DateOf(date_str) ==
    IF date_str = "" THEN Continue
    ELSE IF contains(date_str, "/")
         THEN TryFormat(strptime(date_str, "%m/%d/%Y"))
    ELSE IF contains(date_str, "-") /\ Len(split(date_str, "-")[1]) = 4
         THEN TryFormat(strptime(date_str, "%Y-%m-%d"))
    ELSE TryFallbackFormats(date_str,
             {k \in 1..Len(FallbackFormats) :
                 strptime(date_str, FallbackFormats[k]).ok})

\* The loop of line 73: the first pattern whose pass leaves the function
\* decides; line 96 when every pass goes on. passes[p]: the pass of pattern p.
FirstLeaving(passes, otherwise) ==
    IF \A p \in DOMAIN passes : passes[p].continue THEN otherwise
    ELSE passes[Least({p \in DOMAIN passes : ~passes[p].continue})].out

parse_date(text) ==
    FirstLeaving([p \in 1..5 |-> DateOf(DateSearch(text, p))], Return(None))

(***************************************************************************)
(* parse_vendor                                                            *)
(***************************************************************************)
\* What re.search returns: no match, or a match and its groups 1 and 2; a
\* group is None when it took no part in the match.
NoMatch == [matched |-> FALSE, group1 |-> None, group2 |-> None]

Match(g1, g2) == [matched |-> TRUE, group1 |-> g1, group2 |-> g2]

\* (a|b|...) at i: the length of the first alternative standing there, or 0.
\* (No alternative of the source's groups is a prefix of another.) Under (?i)
\* the alternatives, all in lower case, are sought in lower(text).
AlternativeAt(s, i, alts) ==
    LET ok == {k \in 1..Len(alts) : LitAt(s, i, alts[k])}
    IN  IF ok = {} THEN 0 ELSE Len(alts[Least(ok)])

\* :?\s*(.+) at j (colon = FALSE: \s*(.+)): "." is any character except "\n".
ValueFollows(s, j, colon) ==
    \E c \in (IF colon /\ Ch(s, j) = ":" THEN 0..1 ELSE {0}) :
        \E k \in 0..RunLen(s, j + c, Whitespace) :
            Ch(s, j + c + k) \notin {"", "\n"}

\* Where (.+) begins when :?\s*(.+) matches at j: ":?" and "\s*" are greedy.
ValueStart(s, j, colon) ==
    LET begins(c) == {j + c + k : k \in {k \in 0..RunLen(s, j + c, Whitespace) :
                                            Ch(s, j + c + k) \notin {"", "\n"}}}
    IN  IF colon /\ Ch(s, j) = ":" /\ begins(1) # {} THEN Greatest(begins(1))
        ELSE Greatest(begins(0))

\* (.+) from i: the rest of the line.
RestOfLine(s, i) ==
    SubSeq(s, i, Least({e \in i..Len(s) : Ch(s, e + 1) \in {"", "\n"}}))

\* re.search of (?i)(<labels>):?\s*(.+) or (?i)(<labels>)\s*(.+)
LabelSearch(text, labels, colon) ==
    LET low == lower(text)
        starts == {i \in 1..Len(text) :
                      /\ AlternativeAt(low, i, labels) > 0
                      /\ ValueFollows(text, i + AlternativeAt(low, i, labels), colon)}
        first == Least(starts)
    IN  IF starts = {} THEN NoMatch
        ELSE Match(Some(SubSeq(text, first,
                                first + AlternativeAt(low, first, labels) - 1)),
                   Some(RestOfLine(text,
                            ValueStart(text, first + AlternativeAt(low, first, labels),
                                       colon))))

\* [A-Z][a-z]+ at i, a whitespace character next: the position after it, or 0.
CapitalizedWordEnd(s, i) ==
    IF Ch(s, i) \in UpperLetter /\ RunLen(s, i + 1, LowerLetter) >= 1
    THEN i + 1 + RunLen(s, i + 1, LowerLetter)
    ELSE 0

\* (\s+[A-Z][a-z]+)*\s+(<suffixes>)\b at j, greedy: as many repetitions of the
\* group as let the rest match; group1 is its last repetition (last: so far).
RECURSIVE CapitalizedTail(_, _, _, _)
CapitalizedTail(s, j, suffixes, last) ==
    LET w == RunLen(s, j, Whitespace)
        e == CapitalizedWordEnd(s, j + w)
        more == IF w >= 1 /\ e > 0
                THEN CapitalizedTail(s, e, suffixes, Some(SubSeq(s, j, e - 1)))
                ELSE NoMatch
        suffix == AlternativeAt(s, j + w, suffixes)
    IN  IF more.matched THEN more
        ELSE IF w >= 1 /\ suffix > 0 /\ Ch(s, j + w + suffix) \notin WordChar
        THEN Match(last, Some(SubSeq(s, j + w, j + w + suffix - 1)))
        ELSE NoMatch

\* re.search of ^[A-Z][a-z]+(\s+[A-Z][a-z]+)*\s+(<suffixes>)\b, re.MULTILINE
CapitalizedSearch(text, suffixes) ==
    LET at(i) == IF (i = 1 \/ Ch(text, i - 1) = "\n") /\ CapitalizedWordEnd(text, i) > 0
                 THEN CapitalizedTail(text, CapitalizedWordEnd(text, i), suffixes, None)
                 ELSE NoMatch
        starts == {i \in 1..Len(text) : at(i).matched}
    IN  IF starts = {} THEN NoMatch ELSE at(Least(starts))

\* re.search(patterns[p], text, re.MULTILINE) of lines 101-106
VendorSearch(text, p) ==
    CASE p = 1 -> LabelSearch(text,
                      <<"vendor", "merchant", "store", "restaurant", "cafe", "shop">>, TRUE)
      [] p = 2 -> LabelSearch(text, <<"thank you", "visit again", "welcome to">>, FALSE)
      [] p = 3 -> CapitalizedSearch(text, <<"Inc", "LLC", "Corp", "Ltd", "Pty">>)
      [] OTHER -> CapitalizedSearch(text,
                      <<"Restaurant", "Cafe", "Store", "Market", "Shop">>)

\* Lines 116-122: the first of the first three lines that qualifies.
VendorFallback(text) ==
    LET lines == split(text, "\n")
        good == {k \in 1..Len(lines) :
                    /\ k <= 3
                    /\ Len(strip(lines[k])) > 2
                    /\ ~startswith(strip(lines[k]), "Date:")
                    /\ ~startswith(strip(lines[k]), "Time:")}
    IN  IF good # {} THEN strip(lines[Least(good)]) ELSE "Unknown Vendor"

\* group(1) of the search that matched, as line 111 reads it.
VendorGroup(m) == m.group1

\* Lines 110-113 for the search result m.
VendorOf(m) ==
    IF ~m.matched THEN Continue
    \* None.strip()
    ELSE IF ~VendorGroup(m).present THEN Leave(Raise("AttributeError", ""))
    ELSE IF Len(strip(VendorGroup(m).str)) > 2
         THEN Leave(Return(strip(VendorGroup(m).str)))
         ELSE Continue

\* The loop of line 108, then the fallback.
parse_vendor(text) ==
    FirstLeaving([p \in 1..4 |-> VendorOf(VendorSearch(text, p))],
                 Return(VendorFallback(text)))

(***************************************************************************)
(* parse_total                                                             *)
(***************************************************************************)
\* The class [\$...] of lines 128-130, 143 and 168: "$" and five characters
\* outside ASCII (U+00E2, U+201A, U+00AC, U+00C2, U+0141). "~" stands for
\* U+00AC: like it, it is no letter, digit, "_" or whitespace, and is not "$".
CurrencySymbol == {"$", "~"}

NoAmount == [end |-> 0, group |-> ""]

\* [\$...]?\s*([\d,]+\.\d{2}) at i: the position after the match (0: none) and
\* the group.
AmountAt(s, i) ==
    LET a == IF Ch(s, i) \in CurrencySymbol THEN i + 1 ELSE i
        b == a + RunLen(s, a, Whitespace)
        r == RunLen(s, b, Digit \cup {","})
    IN  IF r >= 1 /\ Ch(s, b + r) = "." /\ AllIn(s, b + r + 1, 2, Digit)
              /\ b + r + 2 <= Len(s)
        THEN [end |-> b + r + 3, group |-> SubSeq(s, b, b + r + 2)]
        ELSE NoAmount

\* re.search of (?i)(<labels>):?\s*[\$...]?\s*([\d,]+\.\d{2}), or without ":?"
LabelledAmountSearch(text, labels, colon) ==
    LET low == lower(text)
        at(i) ==
            LET label == AlternativeAt(low, i, labels)
                j == i + label
                k == IF colon /\ Ch(text, j) = ":" THEN j + 1 ELSE j
            IN  IF label > 0
                   /\ AmountAt(text, k + RunLen(text, k, Whitespace)).end > 0
                THEN Match(Some(SubSeq(text, i, j - 1)),
                           Some(AmountAt(text, k + RunLen(text, k, Whitespace)).group))
                ELSE NoMatch
        starts == {i \in 1..Len(text) : at(i).matched}
    IN  IF starts = {} THEN NoMatch ELSE at(Least(starts))

\* re.search of [\$...]?\s*([\d,]+\.\d{2})\s*(?i)(<labels>), the flag taken
\* for the whole pattern
AmountLabelSearch(text, labels) ==
    LET low == lower(text)
        at(i) ==
            LET m == AmountAt(text, i)
            IN  IF m.end > 0
                   /\ AlternativeAt(low, m.end + RunLen(text, m.end, Whitespace),
                          labels) > 0
                THEN Match(Some(m.group),
                           Some(SubSeq(text, m.end + RunLen(text, m.end, Whitespace),
                                  m.end + RunLen(text, m.end, Whitespace) - 1
                                  + AlternativeAt(low,
                                        m.end + RunLen(text, m.end, Whitespace),
                                        labels))))
                ELSE NoMatch
        starts == {i \in 1..Len(text) : at(i).matched}
    IN  IF starts = {} THEN NoMatch ELSE at(Least(starts))

\* re.search(patterns[p], text) of lines 127-131
TotalSearch(text, p) ==
    CASE p = 1 -> LabelledAmountSearch(text, <<"total", "amount", "balance", "due">>, TRUE)
      [] p = 2 -> LabelledAmountSearch(text, <<"subtotal", "total", "amount">>, FALSE)
      [] OTHER -> AmountLabelSearch(text, <<"total", "due", "balance">>)

\* re.findall(r'[\$...]?\s*([\d,]+\.\d{2})', text) from position pos on
RECURSIVE FindAllAmounts(_, _)
FindAllAmounts(s, pos) ==
    LET starts == {i \in pos..Len(s) : AmountAt(s, i).end > 0}
    IN  IF starts = {} THEN <<>>
        ELSE <<AmountAt(s, Least(starts)).group>>
                 \o FindAllAmounts(s, AmountAt(s, Least(starts)).end)

\* Lines 143-147
TotalFallback(text) ==
    LET amounts == FindAllAmounts(text, 1)
    IN  IF amounts # <<>> THEN float(remove(amounts[Len(amounts)], ","))
        ELSE Return(0)

\* group(1) of the search that matched, as line 136 reads it.
TotalGroup(m) == m.group1.str

\* Lines 137-140: ValueError is caught.
TryAmount(amount) ==
    IF amount.raised THEN Continue ELSE Leave(amount)

\* Lines 135-140 for the search result m.
TotalOf(m) ==
    IF ~m.matched THEN Continue
    ELSE TryAmount(float(remove(TotalGroup(m), ",")))

\* The loop of line 133, then the fallback. lateFlags: the re module takes
\* "(?i)" in the middle of patterns[3] as a flag of the whole pattern (Python
\* up to 3.10); otherwise compiling it raises re.error (Python 3.11 on).
parse_total(text, lateFlags) ==
    FirstLeaving([p \in 1..3 |->
                    IF p = 3 /\ ~lateFlags THEN Leave(Raise("re.error", 0))
                    ELSE TotalOf(TotalSearch(text, p))],
                 TotalFallback(text))

(***************************************************************************)
(* parse_payment_method                                                    *)
(***************************************************************************)
methods ==
    <<"cash", "credit", "debit", "visa", "mastercard", "amex", "discover",
      "paypal", "venmo", "apple pay", "google pay", "mobile pay">>

\* The last entry found instead of the first.
LastMethod(found) == Greatest(found)

\* The method the loop of line 156 stops at.
FirstMethod(found) == Least(found)

parse_payment_method(text) ==
    LET text_lower == lower(text)
        found == {k \in 1..Len(methods) : contains(text_lower, methods[k])}
    IN  IF found # {} THEN Return(capitalize(methods[FirstMethod(found)]))
        ELSE Return("Unknown")

(***************************************************************************)
(* parse_items                                                             *)
(***************************************************************************)
NoItemMatch == [matched |-> FALSE, g1 |-> "", g2 |-> "", g3 |-> "", g4 |-> ""]

\* item_pattern (line 168) at i:
\*   ([A-Za-z\s]+)\s+(\d+)\s+@\s+([\$...]?\s*[\d,]+\.\d{2})\s+([\$...]?\s*[\d,]+\.\d{2})
\* Group 1 is greedy and gives back one whitespace character to the \s+ after
\* it; every other quantifier is followed by a character outside its class.
ItemAt(line, i) ==
    LET e  == i + RunLen(line, i, Letter \cup Whitespace)
        q  == e + RunLen(line, e, Digit)
        at == q + RunLen(line, q, Whitespace)
        u  == at + 1 + RunLen(line, at + 1, Whitespace)
        um == AmountAt(line, u)
        t  == um.end + RunLen(line, um.end, Whitespace)
        tm == AmountAt(line, t)
    IN  IF /\ e - i >= 2
           /\ Ch(line, e - 1) \in Whitespace
           /\ q > e
           /\ at > q
           /\ Ch(line, at) = "@"
           /\ u > at + 1
           /\ um.end > 0
           /\ t > um.end
           /\ tm.end > 0
        THEN [matched |-> TRUE,
              g1 |-> SubSeq(line, i, e - 2),
              g2 |-> SubSeq(line, e, q - 1),
              g3 |-> SubSeq(line, u, um.end - 1),
              g4 |-> SubSeq(line, t, tm.end - 1)]
        ELSE NoItemMatch

\* re.search(item_pattern, line)
ItemSearch(line) ==
    LET starts == {i \in 1..Len(line) : ItemAt(line, i).matched}
    IN  IF starts = {} THEN NoItemMatch ELSE ItemAt(line, Least(starts))

\* The group as it was captured.
DescriptionAsCaptured(g1) == g1

\* Line 173
Description(g1) == strip(g1)

\* Lines 175 and 176
Price(g) == float(remove(remove(g, "$"), ","))

\* Lines 178-184
LineItem(m) ==
    [description |-> Description(m.g1),
     quantity    |-> int(m.g2),
     unit_price  |-> Price(m.g3).value,
     total_price |-> Price(m.g4).value,
     category    |-> "general"]

\* Lines 171-184 for the search result m of one line: nothing, an item, or
\* the ValueError of float().
ItemOf(m) ==
    IF ~m.matched THEN [raised |-> FALSE, found |-> <<>>]
    ELSE IF Price(m.g3).raised \/ Price(m.g4).raised
         THEN [raised |-> TRUE, found |-> <<>>]
         ELSE [raised |-> FALSE, found |-> <<LineItem(m)>>]

\* A list that outlives the call.
KeptItems(previous) == previous

\* Line 164
EmptyItems(previous) == <<>>

\* The items of the lines from the k-th on, in order.
RECURSIVE Collect(_, _)
Collect(of, k) ==
    IF k > Len(of) THEN <<>> ELSE of[k].found \o Collect(of, k + 1)

\* The loop of line 170; of[k]: what line k gives. Nothing in the function
\* catches the ValueError.
ItemsOf(of, items) ==
    IF \E k \in DOMAIN of : of[k].raised THEN Raise("ValueError", <<>>)
    ELSE Return(items \o Collect(of, 1))

LinesOf(lines) == [k \in 1..Len(lines) |-> ItemOf(ItemSearch(lines[k]))]

parse_items(text, previous) ==
    ItemsOf(LinesOf(split(text, "\n")), EmptyItems(previous))

(***************************************************************************)
(* process_receipt, one step per call it makes.                            *)
(***************************************************************************)
VARIABLES
    debug,           \* self.debug, set by __init__
    lateFlags,       \* the re module of the interpreter: see parse_total
    now,             \* datetime.now(), as a date
    ticks,           \* how often the date has changed
    pc,              \* where the current call of process_receipt stands
    acquired,        \* extract_text has returned the text
    text, vendor, date, total, payment_method, items,   \* its locals
    exc,             \* the exception raised inside the try block
    failed,          \* the call that raised it
    ran,             \* the extractors called so far, in order
    result,          \* the dict returned
    history          \* the calls completed so far

vars == <<debug, lateFlags, now, ticks, pc, acquired, text, vendor, date, total,
          payment_method, items, exc, failed, ran, result, history>>

locals == <<text, vendor, date, total, payment_method, items>>

\* The receipt lines the texts of Spec are made of.
LineSet ==
    {"Vendor: Acme Foods", "Thank you Acme", "Acme Inc",
     "03/15/2024", "03/15/24", "Jan 5, 2024",
     "Total: $45.67", "45.67 total", "VISA or cash",
     "Coffee 2 @ $3.50 $7.00", "Water 0 @ 1.00 0.00", "  1 @ 2.00 2.00",
     "Tea 1 @ ~3.00 ~3.00"}

\* The most lines a text of Spec has.
MaxLines == 2

\* The texts of exactly n lines, n >= 1.
RECURSIVE TextsOfLines(_)
TextsOfLines(n) ==
    IF n = 1 THEN LineSet
    ELSE {t \o "\n" \o l : t \in TextsOfLines(n - 1), l \in LineSet}

\* The texts of Spec: the empty text, and up to MaxLines lines.
Texts == {""} \cup UNION {TextsOfLines(n) : n \in 1..MaxLines}

\* The texts of SeqSpec.
SeqTexts ==
    {"", "03/15/2024 VISA", "03/15/24\nTea 1 @ 1.00 1.00", "Acme Inc",
     "Vendor: A\nJan 5, 2024", "Coffee 2 @ $3.50 $7.00\n45.67 total"}

\* The most calls a behaviour of SeqSpec makes.
MaxCalls == 2

\* The most changes of date.
MaxTicks == 1

FirstDay == [ok |-> TRUE, year |-> 2024, month |-> 12, day |-> 30]

NextDay(d) ==
    IF d.day < DaysInMonth(d.year, d.month) THEN [d EXCEPT !.day = d.day + 1]
    ELSE IF d.month < 12 THEN [d EXCEPT !.month = d.month + 1, !.day = 1]
    ELSE [d EXCEPT !.year = d.year + 1, !.month = 1, !.day = 1]

NoResult == [pending |-> TRUE]

\* A handler that catches ValueError only.
HandlesValueError(e) == e = "ValueError"

\* `except Exception` (line 217): the classes it catches, among those raised.
Handles(e) ==
    e \in {"RuntimeError", "AttributeError", "UnboundLocalError", "ValueError", "re.error"}

\* A confidence that ignores the items.
ConfidenceOfAny(its) == 95

\* Line 205
Confidence(its) == IF Len(its) > 0 THEN 95 ELSE 85

\* Lines 207-216
ReceiptRecord ==
    [vendor         |-> vendor,
     date           |-> date,
     total          |-> total,
     payment_method |-> payment_method,
     currency       |-> "USD",
     raw_text       |-> text,
     confidence     |-> Confidence(items),
     items          |-> items]

\* An error record that keeps what the call had extracted before it failed.
PartialErrorRecord ==
    [error          |-> exc,
     vendor         |-> IF vendor = "" THEN "Unknown" ELSE vendor,
     date           |-> strftime(now),
     total          |-> total,
     payment_method |-> "Unknown",
     currency       |-> "USD",
     raw_text       |-> text,
     confidence     |-> 50,
     items          |-> items]

\* Lines 218-228
ErrorRecord ==
    [error          |-> exc,
     vendor         |-> "Unknown",
     date           |-> strftime(now),
     total          |-> 0,
     payment_method |-> "Unknown",
     currency       |-> "USD",
     raw_text       |-> "",
     confidence     |-> 50,
     items          |-> <<>>]

Init ==
    /\ debug \in BOOLEAN
    /\ lateFlags \in BOOLEAN
    /\ now = FirstDay
    /\ ticks = 0
    /\ pc = "idle"
    /\ acquired = FALSE
    /\ text = ""
    /\ vendor = ""
    /\ date = ""
    /\ total = 0
    /\ payment_method = ""
    /\ items = <<>>
    /\ exc = ""
    /\ failed = ""
    /\ ran = <<>>
    /\ result = NoResult
    /\ history = <<>>

\* The date changes after a call has returned.
Tick ==
    /\ pc = "returned"
    /\ ticks < MaxTicks
    /\ now' = NextDay(now)
    /\ ticks' = ticks + 1
    /\ UNCHANGED <<debug, lateFlags, pc, acquired, locals, exc, failed, ran,
                   result, history>>

\* process_receipt is called (line 188): its locals are new.
Call(calls) ==
    /\ pc \in {"idle", "returned"}
    /\ Len(history) < calls
    /\ pc' = "preprocess_image"
    /\ acquired' = FALSE
    /\ text' = ""
    /\ vendor' = ""
    /\ date' = ""
    /\ total' = 0
    /\ payment_method' = ""
    /\ items' = EmptyItems(items)
    /\ exc' = ""
    /\ failed' = ""
    /\ ran' = <<>>
    /\ result' = NoResult
    /\ UNCHANGED <<debug, lateFlags, now, ticks, history>>

\* A call inside the try block raises e.
Raised(e) ==
    /\ exc' = e
    /\ failed' = pc
    /\ pc' = "except"

\* The call at pc returns: to, the call that follows it.
Returned(to) ==
    /\ pc' = to
    /\ UNCHANGED <<exc, failed>>

\* Line 192: preprocess_image returns the image, or raises RuntimeError.
PreprocessImage ==
    /\ pc = "preprocess_image"
    /\ \/ Returned("extract_text")
       \/ Raised("RuntimeError")
    /\ UNCHANGED <<debug, lateFlags, now, ticks, acquired, locals, ran, result,
                   history>>

\* Line 195: extract_text returns the text, or raises RuntimeError.
ExtractText(texts) ==
    /\ pc = "extract_text"
    /\ \/ /\ \E t \in texts : text' = t
          /\ acquired' = TRUE
          /\ Returned("parse_vendor")
       \/ /\ Raised("RuntimeError")
          /\ UNCHANGED <<text, acquired>>
    /\ UNCHANGED <<debug, lateFlags, now, ticks, vendor, date, total,
                   payment_method, items, ran, result, history>>

\* Line 198, r: what parse_vendor does
AssignVendor(r) ==
    IF r.raised THEN Raised(r.exc) /\ UNCHANGED vendor
    ELSE vendor' = r.value /\ Returned("parse_date")

ParseVendor ==
    /\ pc = "parse_vendor"
    /\ ran' = Append(ran, pc)
    /\ AssignVendor(parse_vendor(text))
    /\ UNCHANGED <<debug, lateFlags, now, ticks, acquired, text, date, total,
                   payment_method, items, result, history>>

\* Line 199, r: what parse_date does
AssignDate(r) ==
    IF r.raised THEN Raised(r.exc) /\ UNCHANGED date
    ELSE /\ date' = IF r.value.present THEN r.value.str ELSE strftime(now)
         /\ Returned("parse_total")

ParseDate ==
    /\ pc = "parse_date"
    /\ ran' = Append(ran, pc)
    /\ AssignDate(parse_date(text))
    /\ UNCHANGED <<debug, lateFlags, now, ticks, acquired, text, vendor, total,
                   payment_method, items, result, history>>

\* Line 200, r: what parse_total does
AssignTotal(r) ==
    IF r.raised THEN Raised(r.exc) /\ UNCHANGED total
    ELSE total' = r.value /\ Returned("parse_payment_method")

ParseTotal ==
    /\ pc = "parse_total"
    /\ ran' = Append(ran, pc)
    /\ AssignTotal(parse_total(text, lateFlags))
    /\ UNCHANGED <<debug, lateFlags, now, ticks, acquired, text, vendor, date,
                   payment_method, items, result, history>>

\* Line 201
ParsePaymentMethod ==
    /\ pc = "parse_payment_method"
    /\ ran' = Append(ran, pc)
    /\ payment_method' = parse_payment_method(text).value
    /\ Returned("parse_items")
    /\ UNCHANGED <<debug, lateFlags, now, ticks, acquired, text, vendor, date,
                   total, items, result, history>>

\* Line 202, r: what parse_items does
AssignItems(r) ==
    IF r.raised THEN Raised(r.exc) /\ UNCHANGED items
    ELSE items' = r.value /\ Returned("return")

ParseItems ==
    /\ pc = "parse_items"
    /\ ran' = Append(ran, pc)
    /\ AssignItems(parse_items(text, items))
    /\ UNCHANGED <<debug, lateFlags, now, ticks, acquired, text, vendor, date,
                   total, payment_method, result, history>>

\* What a completed call leaves in the history.
Completed(r) == [acquired |-> acquired, text |-> text, clock |-> now, result |-> r]

\* Lines 205-216
ReturnRecord ==
    /\ pc = "return"
    /\ result' = ReceiptRecord
    /\ pc' = "returned"
    /\ history' = Append(history, Completed(ReceiptRecord))
    /\ UNCHANGED <<debug, lateFlags, now, ticks, acquired, locals, exc, failed, ran>>

\* Lines 217-228
Except ==
    /\ pc = "except"
    /\ IF Handles(exc)
       THEN /\ result' = ErrorRecord
            /\ pc' = "returned"
            /\ history' = Append(history, Completed(ErrorRecord))
       ELSE /\ pc' = "propagated"
            /\ UNCHANGED <<result, history>>
    /\ UNCHANGED <<debug, lateFlags, now, ticks, acquired, locals, exc, failed, ran>>

\* One call of process_receipt on a new ReceiptProcessor.
Next ==
    \/ Tick
    \/ Call(1)
    \/ PreprocessImage
    \/ ExtractText(Texts)
    \/ ParseVendor
    \/ ParseDate
    \/ ParseTotal
    \/ ParsePaymentMethod
    \/ ParseItems
    \/ ReturnRecord
    \/ Except

Spec == Init /\ [][Next]_vars

\* A ReceiptProcessor called up to MaxCalls times.
SeqNext ==
    \/ Tick
    \/ Call(MaxCalls)
    \/ PreprocessImage
    \/ ExtractText(SeqTexts)
    \/ ParseVendor
    \/ ParseDate
    \/ ParseTotal
    \/ ParsePaymentMethod
    \/ ParseItems
    \/ ReturnRecord
    \/ Except

SeqSpec == Init /\ [][SeqNext]_vars

(***************************************************************************)
(* The properties.                                                         *)
(***************************************************************************)
\* The fields of every record process_receipt returns.
Fields ==
    {"vendor", "date", "total", "payment_method", "currency", "raw_text",
     "confidence", "items"}

IsError(r) == "error" \in DOMAIN r

\* C1. process_receipt never lets an exception out to its caller, and the
\* record it returns has all of vendor, date, total, payment_method, currency,
\* raw_text, confidence and items, whatever the acquisition and the
\* extractors do.
C1_Totality ==
    /\ pc # "propagated"
    /\ pc = "returned" => Fields \subseteq DOMAIN result

\* C1: a call in which something raised has returned a record.
C1_Witness ==
    /\ pc = "returned"
    /\ failed # ""
    /\ Fields \subseteq DOMAIN result

\* C2. A record with an `error` field is returned only when the acquisition
\* (preprocess_image, extract_text) failed: once the text is acquired no
\* extractor raises and the record is a ReceiptRecord.
C2_OnlyAcquisitionFails ==
    /\ acquired => failed = ""
    /\ (pc = "returned" /\ IsError(result)) => ~acquired

\* C3. The confidence of a returned record is 0.95 without `error` and with
\* items, 0.85 without `error` and without items, 0.5 with `error`; so it is
\* in [0,1].
C3_ConfidenceRule ==
    pc = "returned" =>
        /\ result.confidence =
               IF IsError(result) THEN 50
               ELSE IF result.items # <<>> THEN 95 ELSE 85
        /\ result.confidence \in 0..100

\* C3: a record without `error` and with items has been returned.
C3_Witness ==
    /\ pc = "returned"
    /\ ~IsError(result)
    /\ result.items # <<>>
    /\ result.confidence = 95

\* C4. parse_date does not raise: a match that no format parses sends it to
\* the next pattern, and with no parsed date it returns None, so that the
\* record is a ReceiptRecord with the current date.
C4_DateFallbackChain ==
    /\ failed # "parse_date"
    /\ (pc = "parse_total" /\ parse_date(text).value = None) => date = strftime(now)

\* C5. parse_total returns the amount captured by the first labelled pattern
\* that matches (group 2 of patterns 1 and 2, group 1 of pattern 3); the last
\* amount of the text is returned only when no labelled pattern matches.
C5_LabelledTotalFirst ==
    /\ failed # "parse_total"
    /\ pc = "parse_payment_method" =>
          \A p \in 1..3 :
              (/\ TotalSearch(text, p).matched
               /\ \A q \in 1..(p - 1) : ~TotalSearch(text, q).matched)
              => total = float(remove(IF p = 3 THEN TotalSearch(text, p).group1.str
                                      ELSE TotalSearch(text, p).group2.str,
                                      ",")).value

\* C6. When a label or a greeting phrase followed by a value stands in the
\* text, parse_vendor returns the trimmed value (group 2), if it is longer
\* than 2 characters, and not the label or phrase (group 1); the first of the
\* two patterns that matches wins.
C6_VendorIsValue ==
    pc = "parse_date" =>
        \A p \in 1..2 :
            (/\ VendorSearch(text, p).matched
             /\ \A q \in 1..(p - 1) : ~VendorSearch(text, q).matched
             /\ Len(strip(VendorSearch(text, p).group2.str)) > 2)
            => vendor = strip(VendorSearch(text, p).group2.str)

\* The vocabulary of C7, each entry with its first letter capitalized.
Capitalized ==
    <<"Cash", "Credit", "Debit", "Visa", "Mastercard", "Amex", "Discover",
      "Paypal", "Venmo", "Apple pay", "Google pay", "Mobile pay">>

\* The entries of the vocabulary that occur in the text, whatever the case.
Occurring(t) == {k \in 1..Len(methods) : contains(lower(t), methods[k])}

\* C7. parse_payment_method returns the first entry of the vocabulary, in the
\* vocabulary's order, that occurs in the text in any case and anywhere, with
\* its first letter capitalized, and "Unknown" exactly when none occurs.
C7_PaymentTieBreak ==
    pc = "parse_items" =>
        /\ Occurring(text) # {} =>
               payment_method = Capitalized[Least(Occurring(text))]
        /\ Occurring(text) = {} <=> payment_method = "Unknown"

\* C7: a text that names visa before cash has given "Cash".
C7_Witness ==
    /\ pc = "parse_items"
    /\ contains(text, "VISA or cash")
    /\ payment_method = "Cash"

\* C8, as amended. Every LineItem of parse_items has a trimmed description
\* (it may be empty), a quantity that is a natural number (it may be 0),
\* prices that are not negative and the category "general".
C8_LineItemValid ==
    pc = "return" =>
        \A k \in 1..Len(items) :
            /\ items[k].description = strip(items[k].description)
            /\ items[k].quantity \in Nat
            /\ items[k].unit_price >= 0
            /\ items[k].total_price >= 0
            /\ items[k].category = "general"

\* C8: parse_items has returned an item of quantity 0 and one whose
\* description is empty.
C8_Witness ==
    /\ pc = "return"
    /\ \E k \in 1..Len(items) : items[k].quantity = 0
    /\ \E k \in 1..Len(items) : items[k].description = ""

\* C8, as stated. Every LineItem of parse_items has a description that is
\* trimmed and not empty, a quantity of at least 1, prices that are not
\* negative and the category "general".
C8_LineItemPositive ==
    pc = "return" =>
        \A k \in 1..Len(items) :
            /\ items[k].description = strip(items[k].description)
            /\ items[k].description # ""
            /\ items[k].quantity >= 1
            /\ items[k].unit_price >= 0
            /\ items[k].total_price >= 0
            /\ items[k].category = "general"

\* Two completed calls that acquired the same text.
SameText(a, b) == a.acquired /\ b.acquired /\ a.text = b.text

\* Two records that differ in the date at most.
SameButDate(r, q) ==
    /\ DOMAIN r = DOMAIN q
    /\ \A f \in DOMAIN r \ {"date"} : r[f] = q[f]

\* No date pattern matches the text.
NoDatePattern(t) == \A p \in 1..5 : DateSearch(t, p) = ""

\* C9, as amended. Two calls on one ReceiptProcessor that acquire the same
\* text return records that differ in the date at most, and they differ in
\* it only when the date of each is the date of the clock at its call (no
\* date was parsed, or the record is an error record) and the clock differs.
C9_SameTextSameRecord ==
    \A i, j \in 1..Len(history) :
        (i < j /\ SameText(history[i], history[j])) =>
            /\ SameButDate(history[i].result, history[j].result)
            /\ history[i].result.date # history[j].result.date =>
                   /\ history[i].clock # history[j].clock
                   /\ history[i].result.date = strftime(history[i].clock)
                   /\ history[j].result.date = strftime(history[j].clock)

\* C9: two calls acquired the same text, a date pattern matches it, and the
\* records differ in the date.
C9_Witness ==
    \E i, j \in 1..Len(history) :
        /\ i < j
        /\ SameText(history[i], history[j])
        /\ ~NoDatePattern(history[i].text)
        /\ history[i].result.date # history[j].result.date

\* C9, as stated. Two calls on one ReceiptProcessor that acquire the same text
\* return the same record, but for the date when no date pattern matched the
\* text and the clock differs.
C9_SameTextUnlessNoPattern ==
    \A i, j \in 1..Len(history) :
        (i < j /\ SameText(history[i], history[j])) =>
            \/ history[i].result = history[j].result
            \/ /\ SameButDate(history[i].result, history[j].result)
               /\ NoDatePattern(history[i].text)
               /\ history[i].clock # history[j].clock

\* C10. A record with an `error` field has the default in every other field:
\* vendor and payment_method "Unknown", total 0.0, no items, raw_text empty,
\* currency "USD", confidence 0.5 and the date of the clock; also when the
\* text was acquired and extractors had returned values before one raised.
\* The extractors after the one that raised are not run.
C10_ErrorRecordDefaults ==
    /\ \A k \in 1..Len(history) :
           IsError(history[k].result) =>
               history[k].result =
                   [error          |-> history[k].result.error,
                    vendor         |-> "Unknown",
                    date           |-> strftime(history[k].clock),
                    total          |-> 0,
                    payment_method |-> "Unknown",
                    currency       |-> "USD",
                    raw_text       |-> "",
                    confidence     |-> 50,
                    items          |-> <<>>]
    /\ (pc = "returned" /\ failed # "") =>
           IF ran = <<>> THEN failed \in {"preprocess_image", "extract_text"}
           ELSE ran[Len(ran)] = failed

\* C10: an error record has been returned for a text that was acquired, after
\* parse_vendor had returned a vendor.
C10_Witness ==
    /\ pc = "returned"
    /\ IsError(result)
    /\ acquired
    /\ text # ""
    /\ vendor # ""
    /\ Len(ran) >= 2

=============================================================================
